---- MODULE Spec2Model ----
(***************************************************************************)
(* Model of ChromeDebugAdapter (src/src/chromeDebugAdapter.ts): the launch *)
(* promise chain (super.launch, build, spawn, attach, user-agent probe,    *)
(* cache request), attach(), the spawn strategy, the helper's PID message, *)
(* the debuggee's error event and the teardown in disconnect().            *)
(*                                                                         *)
(* The adapter runs on one JavaScript thread: every handler below is one   *)
(* atomic action, and the asynchronous steps of a promise chain are        *)
(* separate actions that other handlers, and the steps of other requests,  *)
(* may interleave with.                                                    *)
(***************************************************************************)
EXTENDS Integers, Sequences, FiniteSets, TLC

(* ---------------------------------------------------------------------- *)
(* Bounds of the model                                                     *)
(* ---------------------------------------------------------------------- *)
\* the most launch() and attach() calls of a run
MaxLaunches == 1
MaxDisconnects == 2
MaxEvents == 1
RandSteps == 2
\* the most launches of the specification of repeated launches
MaxRelaunches == 2
\* the most requests of the specification of doAttach
MaxRequests == 2
\* the most entries of a sourceMapPathOverrides table
MaxEntries == 2
\* the most pause events, resume events and timer expiries of a run
MaxOverlayOps == 5
\* the most initialize() calls of a run
MaxInitializes == 2

(* ---------------------------------------------------------------------- *)
(* JavaScript values                                                       *)
(* ---------------------------------------------------------------------- *)
\* undefined / null of a slot that holds a port or a flag: a value no port
\* and no flag of the model takes
Undefined == -2147483647
\* the values of the slot that parseInt fills: undefined, NaN, an infinity,
\* or an integer as its sign and its decimal digits without leading zeros
NoNumber == [kind |-> "undefined", negative |-> FALSE, digits |-> <<>>]
NaN == [kind |-> "NaN", negative |-> FALSE, digits |-> <<>>]
Infinity(negative) == [kind |-> "Infinity", negative |-> negative, digits |-> <<>>]
Number(negative, digits) == [kind |-> "number", negative |-> negative, digits |-> digits]
\* this._chromeProc when it is undefined or null
NoProc == 0
\* undefined of a string-valued argument that the code only tests or passes on
UNDEF == "<undefined>"

\* JavaScript truthiness of a port: 0 and undefined are falsy, every other
\* integer is truthy, the negative ones too
TruthyNum(n) == n \notin {0, Undefined}
\* JavaScript truthiness of what parseInt left: undefined, NaN, 0 and -0 are
\* falsy, every other number is truthy
TruthyValue(v) == v.kind = "Infinity" \/ (v.kind = "number" /\ v.digits # <<"0">>)
\* JavaScript truthiness of a string-valued slot ('' and undefined are falsy)
TruthyStr(s) == s # UNDEF /\ s # ""

\* a string argument whose characters the code works on: its text as a
\* sequence of characters, or undefined
Str(text) == [defined |-> TRUE, text |-> text]
NoStr == [defined |-> FALSE, text |-> <<>>]

\* coreUtils.getPlatform(): the code tests for Windows only, so Linux stands
\* for OSX as well
Platforms == {"Windows", "Linux"}

(* ---------------------------------------------------------------------- *)
(* Inputs                                                                  *)
(* ---------------------------------------------------------------------- *)
\* args.port: absent, 0, an explicit port, a negative number
ArgPorts == {Undefined, 0, 9222, -5}
\* args.runtimeExecutable: absent, empty, or a path
ArgExecutables == {UNDEF, "", "/opt/electron/electron"}
\* args.file: absent, '', 'app', '../x', 'app/', '/abs', 'my app', a name
\* outside ASCII, and a UNC path
FileApp == <<"a", "p", "p">>
ArgFiles ==
    {NoStr,
     Str(<<>>),
     Str(FileApp),
     Str(<<".", ".", "/", "x">>),
     Str(<<"a", "p", "p", "/">>),
     Str(<<"/", "a", "b", "s">>),
     Str(<<"m", "y", " ", "a", "p", "p">>),
     Str(<<"ä">>),
     Str(<<"\\", "\\", "s", "r", "v", "\\", "s", "h", "\\", "x">>)}
\* args.url
ArgUrls == {UNDEF, "http://localhost/"}
\* args.urlFilter
ArgUrlFilters == {UNDEF, "http://x/*"}
\* args.disableNetworkCache: absent (Undefined), false (0), true (1)
ArgCacheFlags == {Undefined, 0, 1}
\* args.cwd: the workspace folder, an absolute path of the platform
Cwd(plat) ==
    IF plat = "Windows" THEN <<"C", ":", "\\", "p", "r", "o", "j">>
    ELSE <<"/", "p", "r", "o", "j">>
\* process.cwd() of the adapter: the root directory
ProcessCwd(plat) == IF plat = "Windows" THEN <<"C", ":", "\\">> ELSE <<"/">>

\* every request the model knows
LaunchArgs ==
    [port : ArgPorts, runtimeExecutable : ArgExecutables, file : ArgFiles,
     url : ArgUrls, urlFilter : ArgUrlFilters, noDebug : BOOLEAN,
     disableNetworkCache : ArgCacheFlags]

\* the launch requests of the lifecycle specification: on a fixed port a
\* noDebug launch of a file target with an empty executable path (through
\* the helper on Windows) and a debugged one with a given executable path;
\* a launch without file target and one without executable path, which
\* throw; and a launch that attaches on a port drawn at random
LifecycleArgs ==
    {a \in LaunchArgs :
        /\ a.url = UNDEF
        /\ a.urlFilter = UNDEF
        /\ a.disableNetworkCache = Undefined
        /\ \/ /\ a.port = 9222
              /\ a.file = Str(FileApp)
              /\ a.runtimeExecutable = ""
              /\ a.noDebug
           \/ /\ a.port = 9222
              /\ a.file = Str(FileApp)
              /\ a.runtimeExecutable = "/opt/electron/electron"
              /\ ~a.noDebug
           \/ /\ a.port = 9222
              /\ a.file = NoStr
              /\ a.runtimeExecutable = "/opt/electron/electron"
              /\ a.noDebug
           \/ /\ a.port = 9222
              /\ a.file = Str(FileApp)
              /\ a.runtimeExecutable = UNDEF
              /\ ~a.noDebug
           \/ /\ a.port = Undefined
              /\ a.file = Str(FileApp)
              /\ a.runtimeExecutable = "/opt/electron/electron"
              /\ ~a.noDebug}

\* the launch requests of the specification of repeated launches: noDebug
\* launches of a file target on a fixed port, with an empty executable path
\* (through the helper on Windows) and with a given one
RelaunchArgs ==
    {a \in LaunchArgs : /\ a.url = UNDEF
                        /\ a.urlFilter = UNDEF
                        /\ a.disableNetworkCache = Undefined
                        /\ a.port = 9222
                        /\ a.file = Str(FileApp)
                        /\ a.runtimeExecutable # UNDEF
                        /\ a.noDebug}

\* the launch requests of the specification of the argument vector: the
\* fields that lines 104-118 read
VectorArgs ==
    {a \in LaunchArgs : a.urlFilter = UNDEF /\ a.disableNetworkCache = Undefined}

\* the launch requests of the specification of doAttach: a launch that
\* reaches the attach, with disableNetworkCache false
CacheArgs ==
    {a \in LaunchArgs : /\ a.port = 9222
                        /\ a.file = Str(FileApp)
                        /\ a.runtimeExecutable = "/opt/electron/electron"
                        /\ ~a.noDebug
                        /\ a.url = UNDEF
                        /\ a.urlFilter = UNDEF
                        /\ a.disableNetworkCache = 0}

\* the attach requests of that specification: IAttachRequestArgs has no
\* file and no executable; one without disableNetworkCache and one with
\* disableNetworkCache true and a URL filter
AttachArgs ==
    {a \in LaunchArgs : /\ a.port = 9222
                        /\ a.file = NoStr
                        /\ a.runtimeExecutable = UNDEF
                        /\ ~a.noDebug
                        /\ a.url = UNDEF
                        /\ \/ /\ a.urlFilter = UNDEF
                              /\ a.disableNetworkCache = Undefined
                           \/ /\ a.urlFilter # UNDEF
                              /\ a.disableNetworkCache = 1}

\* Math.random() as the fractions k / RandSteps, k in 0 .. RandSteps - 1
RandomDraws == 0 .. (RandSteps - 1)

\* the least and the greatest of these draws
EdgeDraws == {0, RandSteps - 1}

\* data.toString() of the helper's message, as a sequence of characters
PidStrings == {<<"4", "2">>, <<"x", "7">>}

\* the underlying error of a ChildProcess 'error' event
ProcErrors == {"ENOENT"}

(* ---------------------------------------------------------------------- *)
(* Pure helpers                                                            *)
(* ---------------------------------------------------------------------- *)
\* the grave accent U+0060, which a string of this module cannot hold
Backtick == "<backtick>"
\* U+000B, U+00A0, U+1680 and U+FEFF, which are white space
VerticalTab == ""
NoBreakSpace == " "
OghamSpace == " "
ByteOrderMark == "﻿"

\* the characters of the texts of the model, in runs of consecutive code
\* points: the control characters U+0009 to U+000D, ASCII, Latin-1, and
\* the white space and the euro sign beyond them.  A character that a
\* string of this module cannot hold is written as its code point between
\* angle brackets.
CharBlocks ==
    <<[first |-> 9, chars |-> <<"\t", "\n", VerticalTab, "\f", "\r">>],
      [first |-> 32, chars |->
         <<" ", "!", "\"", "#", "$", "%", "&", "'", "(", ")", "*", "+", ",",
           "-", ".", "/", "0", "1", "2", "3", "4", "5", "6", "7", "8", "9",
           ":", ";", "<", "=", ">", "?", "@", "A", "B", "C", "D", "E", "F",
           "G", "H", "I", "J", "K", "L", "M", "N", "O", "P", "Q", "R", "S",
           "T", "U", "V", "W", "X", "Y", "Z", "[", "\\", "]", "^", "_",
           Backtick, "a", "b", "c", "d", "e", "f", "g", "h", "i", "j", "k",
           "l", "m", "n", "o", "p", "q", "r", "s", "t", "u", "v", "w", "x",
           "y", "z", "{", "|", "}", "~">>],
      [first |-> 160, chars |->
         <<NoBreakSpace, "¡", "¢", "£", "¤", "¥", "¦", "§", "¨", "©", "ª", "«", "¬", "­",
           "®", "¯", "°", "±", "²", "³", "´", "µ", "¶", "·", "¸", "¹", "º",
           "»", "¼", "½", "¾", "¿", "À", "Á", "Â", "Ã", "Ä", "Å", "Æ", "Ç",
           "È", "É", "Ê", "Ë", "Ì", "Í", "Î", "Ï", "Ð", "Ñ", "Ò", "Ó", "Ô",
           "Õ", "Ö", "×", "Ø", "Ù", "Ú", "Û", "Ü", "Ý", "Þ", "ß", "à", "á",
           "â", "ã", "ä", "å", "æ", "ç", "è", "é", "ê", "ë", "ì", "í", "î",
           "ï", "ð", "ñ", "ò", "ó", "ô", "õ", "ö", "÷", "ø", "ù", "ú", "û",
           "ü", "ý", "þ", "ÿ">>],
      [first |-> 5760, chars |-> <<OghamSpace>>],
      [first |-> 8192, chars |->
         <<"<U+2000>", "<U+2001>", "<U+2002>", "<U+2003>", "<U+2004>",
           "<U+2005>", "<U+2006>", "<U+2007>", "<U+2008>", "<U+2009>",
           "<U+200A>">>],
      [first |-> 8232, chars |-> <<"<U+2028>", "<U+2029>">>],
      [first |-> 8239, chars |-> <<"<U+202F>">>],
      [first |-> 8287, chars |-> <<"<U+205F>">>],
      [first |-> 8364, chars |-> <<"€">>],
      [first |-> 12288, chars |-> <<"<U+3000>">>],
      [first |-> 65279, chars |-> <<ByteOrderMark>>]>>

Alphabet ==
    UNION {{CharBlocks[b].chars[i] : i \in 1 .. Len(CharBlocks[b].chars)} :
              b \in 1 .. Len(CharBlocks)}

\* the code point of a character of the alphabet
CodePoint(c) ==
    LET b == CHOOSE k \in 1 .. Len(CharBlocks) :
                 \E i \in 1 .. Len(CharBlocks[k].chars) : CharBlocks[k].chars[i] = c
        i == CHOOSE k \in 1 .. Len(CharBlocks[b].chars) : CharBlocks[b].chars[k] = c
    IN CharBlocks[b].first + i - 1

IsDigit(c) == c \in {"0", "1", "2", "3", "4", "5", "6", "7", "8", "9"}

DigitVal(c) ==
    CASE c = "0" -> 0 [] c = "1" -> 1 [] c = "2" -> 2 [] c = "3" -> 3
      [] c = "4" -> 4 [] c = "5" -> 5 [] c = "6" -> 6 [] c = "7" -> 7
      [] c = "8" -> 8 [] c = "9" -> 9

DigitChar(n) == <<"0", "1", "2", "3", "4", "5", "6", "7", "8", "9">>[n + 1]

Reverse(s) == [i \in 1 .. Len(s) |-> s[Len(s) + 1 - i]]

\* the values of the leading decimal digits of s
TakeDigits(s) ==
    LET n == CHOOSE k \in 0 .. Len(s) :
                 /\ \A i \in 1 .. k : IsDigit(s[i])
                 /\ k = Len(s) \/ ~IsDigit(s[k + 1])
    IN [i \in 1 .. n |-> DigitVal(s[i])]

\* a decimal numeral without its leading zeros
StripZeros(d) ==
    LET n == CHOOSE k \in 0 .. Len(d) - 1 :
                 /\ \A i \in 1 .. k : d[i] = 0
                 /\ k = Len(d) - 1 \/ d[k + 1] # 0
    IN SubSeq(d, n + 1, Len(d))

\* the sequence f written out
Tuple(f) == SubSeq(f, 1, Len(f))

\* the number with the digits ds to the base b, the most significant first
RECURSIVE Value(_, _)
Value(ds, b) ==
    IF ds = <<>> THEN 0
    ELSE b * Value(SubSeq(ds, 1, Len(ds) - 1), b) + ds[Len(ds)]

\* the digits ds, the most significant first, in groups of size: the value
\* of every group to the base b
Groups(ds, size, b) ==
    LET pad == (size - (Len(ds) % size)) % size
        all == [i \in 1 .. pad |-> 0] \o ds
    IN Tuple([k \in 1 .. Len(all) \div size |->
                 Value(SubSeq(all, size * (k - 1) + 1, size * k), b)])

\* the number sum of v[k] * b^(k-1) in digits to the base b, the least
\* significant first: carries move up one place at a time while a place
\* holds more than b, and then all at once
RECURSIVE Normalize(_, _)
Normalize(v, b) ==
    LET n == Len(v)
        more == IF v[n] >= b THEN 1 ELSE 0
        in(k) == IF k = 1 THEN 0 ELSE v[k - 1] \div b
        carry(k) == \E j \in 1 .. k - 1 :
                       /\ v[j] >= b
                       /\ \A i \in j + 1 .. k - 1 : v[i] = b - 1
        at(k) == IF k <= n THEN v[k] ELSE 0
    IN IF \E k \in 1 .. n : v[k] > b
       THEN Normalize(Tuple([k \in 1 .. n + more |-> (at(k) % b) + in(k)]), b)
       ELSE Tuple([k \in 1 .. n + (IF carry(n + 1) THEN 1 ELSE 0) |->
                      (at(k) + (IF carry(k) THEN 1 ELSE 0)) % b])

\* digits without the zeros at their end
StripEnd(r) ==
    LET n == CHOOSE k \in 0 .. Len(r) :
                 /\ \A i \in k + 1 .. Len(r) : r[i] = 0
                 /\ k = 0 \/ r[k] # 0
    IN SubSeq(r, 1, n)

\* m times the number r plus a, in digits to the base b, the least
\* significant first
MulAdd(r, m, a, b) ==
    IF r = <<>> THEN StripEnd(Normalize(<<a>>, b))
    ELSE StripEnd(Normalize(
             Tuple([k \in 1 .. Len(r) |-> m * r[k] + (IF k = 1 THEN a ELSE 0)]), b))

\* the number with the digits ds to the base from, the most significant
\* first, in digits to the base to, the least significant first
RECURSIVE Convert(_, _, _)
Convert(ds, from, to) ==
    IF ds = <<>> THEN <<>>
    ELSE MulAdd(Convert(SubSeq(ds, 1, Len(ds) - 1), from, to),
                from, ds[Len(ds)], to)

\* the binary digits of the numeral d, the most significant first; the
\* numeral is converted nine digits at a time
ToBits(d) ==
    Reverse(Convert(Groups(d, 9, 10), 10 ^ 9, 2))

\* the numeral of the binary digits bits, which are converted twenty-seven
\* at a time
FromBits(bits) ==
    LET digits == Convert(Groups(bits, 27, 2), 2 ^ 27, 10)
    IN IF digits = <<>> THEN <<0>> ELSE Reverse(digits)

\* binary digits plus one, the least significant first
RECURSIVE IncRev(_)
IncRev(r) ==
    IF r = <<>> THEN <<1>>
    ELSE IF Head(r) = 0 THEN <<1>> \o Tail(r)
    ELSE <<0>> \o IncRev(Tail(r))

\* the binary digits of the nearest double: 53 significant digits, ties to
\* the even one
RoundBits(bits) ==
    IF Len(bits) <= 53 THEN bits
    ELSE LET keep == SubSeq(bits, 1, 53)
             rest == SubSeq(bits, 54, Len(bits))
             sticky == \E i \in 2 .. Len(rest) : rest[i] = 1
             up == rest[1] = 1 /\ (sticky \/ keep[53] = 1)
         IN (IF up THEN Reverse(IncRev(Reverse(keep))) ELSE keep)
            \o [i \in 1 .. Len(rest) |-> 0]

\* the characters of the numeral d
Numeral(d) == [i \in 1 .. Len(d) |-> DigitChar(d[i])]

\* the double nearest to the integer with sign and numeral d: the integer
\* itself when it has at most 53 binary digits, as every numeral of 15
\* digits has, and infinity when it has more than 309 digits or rounds to
\* 2^1024
ToDouble(negative, d) ==
    IF Len(d) <= 15 THEN Number(negative, Numeral(d))
    ELSE IF Len(d) > 309 THEN Infinity(negative)
    ELSE LET bits == RoundBits(ToBits(d))
         IN IF Len(bits) > 1024 THEN Infinity(negative)
            ELSE Number(negative, Numeral(FromBits(bits)))

\* the code points of StrWhiteSpaceChar: white space and line terminators
WhiteSpaceCodes ==
    {9, 10, 11, 12, 13, 32, 160, 5760} \cup (8192 .. 8202)
    \cup {8232, 8233, 8239, 8287, 12288, 65279}

\* the white space of the alphabet, which parseInt skips
WhiteSpace == {c \in Alphabet : CodePoint(c) \in WhiteSpaceCodes}

\* the string without its leading white space
TrimStart(s) ==
    LET n == CHOOSE k \in 0 .. Len(s) :
                 /\ \A i \in 1 .. k : s[i] \in WhiteSpace
                 /\ k = Len(s) \/ s[k + 1] \notin WhiteSpace
    IN SubSeq(s, n + 1, Len(s))

\* parseInt(pidStr, 10): leading white space is skipped, one sign is read,
\* then the leading decimal digits; NaN when no digit follows
ParseInt(s) ==
    LET t == TrimStart(s)
        signed == t # <<>> /\ Head(t) \in {"+", "-"}
        rest == IF signed THEN Tail(t) ELSE t
        digits == TakeDigits(rest)
    IN IF digits = <<>> THEN NaN
       ELSE ToDouble(signed /\ Head(t) = "-", StripZeros(digits))

\* Math.floor((Math.random() * 10000) + 10000) for Math.random() = k / RandSteps
RandomPort(k) == ((k * 10000) \div RandSteps) + 10000

\* const port = args.port || Math.floor(...)
SelectPort(argPort, k) == IF TruthyNum(argPort) THEN argPort ELSE RandomPort(k)

\* one element of the argument vector: its text parts and the number it carries
Arg(text, num) == [text |-> text, num |-> num]

(* ---------------------------------------------------------------------- *)
(* Paths: path.resolve and path.join of Node (path.posix, and path.win32   *)
(* on Windows) over sequences of characters.  A win32 device is a drive    *)
(* letter with its colon or the server and share of a UNC path.            *)
(* ---------------------------------------------------------------------- *)
UpperLetters ==
    <<"A", "B", "C", "D", "E", "F", "G", "H", "I", "J", "K", "L", "M",
      "N", "O", "P", "Q", "R", "S", "T", "U", "V", "W", "X", "Y", "Z">>
LowerLetters ==
    <<"a", "b", "c", "d", "e", "f", "g", "h", "i", "j", "k", "l", "m",
      "n", "o", "p", "q", "r", "s", "t", "u", "v", "w", "x", "y", "z">>

IsLetter(c) ==
    \E i \in 1 .. Len(UpperLetters) : c = UpperLetters[i] \/ c = LowerLetters[i]

\* String.prototype.toLowerCase of one character
ToLowerCase(c) ==
    IF \E i \in 1 .. Len(UpperLetters) : c = UpperLetters[i]
    THEN LowerLetters[CHOOSE i \in 1 .. Len(UpperLetters) : c = UpperLetters[i]]
    ELSE c

\* isPathSeparator: '/' everywhere, '\' too on Windows
IsSep(plat, c) == c = "/" \/ (plat = "Windows" /\ c = "\\")

\* path.sep
Sep(plat) == IF plat = "Windows" THEN "\\" ELSE "/"

\* how many characters at the start of s are separators (sep), or are not
RunLength(plat, s, sep) ==
    CHOOSE k \in 0 .. Len(s) :
        /\ \A i \in 1 .. k : IsSep(plat, s[i]) <=> sep
        /\ k = Len(s) \/ ~(IsSep(plat, s[k + 1]) <=> sep)

\* no UNC root
NoUncRoot == [matched |-> FALSE, server |-> <<>>, share |-> <<>>, rootEnd |-> 0]

\* a UNC root at the start of a Windows path: two separators, a server
\* name, separators, a share name; rootEnd is the length of all of it
UncRoot(plat, p) ==
    IF plat = "Windows" /\ Len(p) >= 2 /\ IsSep(plat, p[1]) /\ IsSep(plat, p[2])
    THEN LET server == RunLength(plat, SubSeq(p, 3, Len(p)), FALSE)
             seps == RunLength(plat, SubSeq(p, 3 + server, Len(p)), TRUE)
             share == RunLength(plat, SubSeq(p, 3 + server + seps, Len(p)), FALSE)
         IN IF server > 0 /\ seps > 0 /\ share > 0
            THEN [matched |-> TRUE,
                  server |-> SubSeq(p, 3, 2 + server),
                  share |-> SubSeq(p, 3 + server + seps, 2 + server + seps + share),
                  rootEnd |-> 2 + server + seps + share]
            ELSE NoUncRoot
    ELSE NoUncRoot

\* the device at the start of p as it is written, unc being its UNC root
DeviceOf(plat, p, unc) ==
    IF unc.matched THEN SubSeq(p, 1, unc.rootEnd)
    ELSE IF plat = "Windows" /\ Len(p) >= 2 /\ IsLetter(p[1]) /\ p[2] = ":"
    THEN SubSeq(p, 1, 2) ELSE <<>>

\* the device at the start of a path as it is written: a UNC root or a
\* drive letter and ':' on Windows, none elsewhere
Device(plat, p) == DeviceOf(plat, p, UncRoot(plat, p))

\* the device as resolve and normalize write it: a UNC root with single
\* backslashes between its parts
DeviceName(unc, device) ==
    IF unc.matched THEN <<"\\", "\\">> \o unc.server \o <<"\\">> \o unc.share
    ELSE device

\* a path with the device device: the device, whether the path is absolute,
\* and what follows the device
ParsedPath(plat, p, unc, device) ==
    [device |-> device,
     name |-> DeviceName(unc, device),
     absolute |-> \/ unc.matched
                  \/ Len(p) > Len(device) /\ IsSep(plat, p[Len(device) + 1]),
     tail |-> SubSeq(p, Len(device) + 1, Len(p))]

PathParse(plat, p) == ParsedPath(plat, p, UncRoot(plat, p), Device(plat, p))

\* the segments of s between separators; cur is the segment being read
RECURSIVE SplitPath(_, _, _)
SplitPath(plat, s, cur) ==
    IF s = <<>> THEN <<cur>>
    ELSE IF IsSep(plat, Head(s)) THEN <<cur>> \o SplitPath(plat, Tail(s), <<>>)
    ELSE SplitPath(plat, Tail(s), Append(cur, Head(s)))

\* normalizeString over segments: '' and '.' are dropped, '..' removes the
\* segment before it, and is kept only above the start of a relative path
RECURSIVE NormalizeSegments(_, _, _)
NormalizeSegments(segs, out, allowAboveRoot) ==
    IF segs = <<>> THEN out
    ELSE LET seg == Head(segs)
         IN IF seg = <<>> \/ seg = <<".">>
            THEN NormalizeSegments(Tail(segs), out, allowAboveRoot)
            ELSE IF seg = <<".", ".">>
            THEN (IF out # <<>> /\ out[Len(out)] # <<".", ".">>
                  THEN NormalizeSegments(Tail(segs), SubSeq(out, 1, Len(out) - 1),
                                         allowAboveRoot)
                  ELSE IF allowAboveRoot
                  THEN NormalizeSegments(Tail(segs), Append(out, seg), allowAboveRoot)
                  ELSE NormalizeSegments(Tail(segs), out, allowAboveRoot))
            ELSE NormalizeSegments(Tail(segs), Append(out, seg), allowAboveRoot)

\* segments joined by a separator
RECURSIVE JoinSegments(_, _)
JoinSegments(segs, sep) ==
    IF segs = <<>> THEN <<>>
    ELSE IF Len(segs) = 1 THEN segs[1]
    ELSE segs[1] \o <<sep>> \o JoinSegments(Tail(segs), sep)

\* normalizeString(path, allowAboveRoot, separator, isPathSeparator)
NormalizeString(plat, s, allowAboveRoot) ==
    JoinSegments(NormalizeSegments(SplitPath(plat, s, <<>>), <<>>, allowAboveRoot),
                 Sep(plat))

\* device names are compared without regard to case
SameDevice(a, b) ==
    [i \in 1 .. Len(a) |-> ToLowerCase(a[i])] = [i \in 1 .. Len(b) |-> ToLowerCase(b[i])]

\* nothing resolved yet
NoPath == [device |-> <<>>, absolute |-> FALSE, tail |-> <<>>]

\* one turn of the right-to-left loop of path.resolve: the argument p, which
\* parses as q, is put in front of r, what the arguments to its right
\* resolved to
ResolveParsed(plat, p, q, r) ==
    IF p = <<>> THEN r
    ELSE IF r.absolute /\ (plat # "Windows" \/ r.device # <<>>) THEN r
    ELSE IF q.name # <<>> /\ r.device # <<>> /\ ~SameDevice(q.name, r.device)
    THEN r
    ELSE [device |-> IF r.device = <<>> THEN q.name ELSE r.device,
          absolute |-> r.absolute \/ q.absolute,
          tail |-> IF r.absolute THEN r.tail
                   ELSE q.tail \o <<Sep(plat)>> \o r.tail]

ResolveStep(plat, p, r) == ResolveParsed(plat, p, PathParse(plat, p), r)

\* path.resolve(args.cwd, args.file), both strings: an absolute file stands
\* for itself, the result is normalised and ends in no separator; what the
\* two leave open comes from process.cwd(), which is absolute
PathResolve(plat, cwd, file) ==
    LET r == ResolveStep(plat, ProcessCwd(plat),
                 ResolveStep(plat, cwd, ResolveStep(plat, file, NoPath)))
    IN r.device \o <<Sep(plat)>> \o NormalizeString(plat, r.tail, FALSE)

\* what path.normalize writes after the device of p, which parses as q:
\* the normal form of the rest, '.' for an empty relative one, and the
\* separator that p ends in
NormalTail(plat, p, q) ==
    LET norm == NormalizeString(plat, q.tail, ~q.absolute)
        empty == norm = <<>> /\ q.absolute
        trailing == p # <<>> /\ IsSep(plat, p[Len(p)])
    IN (IF norm = <<>> /\ ~q.absolute THEN <<".">> ELSE norm)
       \o (IF ~empty /\ trailing THEN <<Sep(plat)>> ELSE <<>>)

\* path.normalize of p, which parses as q and has the normal tail tail.  On
\* Windows a relative path without device whose normal form could be read
\* as one with a drive is given '.\' in front.
NormalizeParsed(plat, p, q, tail) ==
    IF /\ plat = "Windows" /\ ~q.absolute /\ q.device = <<>>
       /\ \E i \in 1 .. Len(p) : p[i] = ":"
       /\ \/ Len(tail) >= 2 /\ IsLetter(tail[1]) /\ tail[2] = ":"
          \/ \E i \in 1 .. Len(p) :
                p[i] = ":" /\ (i = Len(p) \/ IsSep(plat, p[i + 1]))
    THEN <<".", "\\">> \o tail
    ELSE q.name \o (IF q.absolute THEN <<Sep(plat)>> ELSE <<>>) \o tail

\* path.normalize(p)
PathNormalize(plat, p) ==
    IF p = <<>> THEN <<".">>
    ELSE IF Len(p) = 1 THEN (IF IsSep(plat, p[1]) THEN <<Sep(plat)>> ELSE p)
    ELSE NormalizeParsed(plat, p, PathParse(plat, p),
                         NormalTail(plat, p, PathParse(plat, p)))

\* the arguments of path.join joined by the separator.  On Windows the
\* separators at the start of the joined text become one unless the first
\* argument starts a UNC path.
JoinedParts(plat, first, joined) ==
    IF /\ plat = "Windows"
       /\ ~(/\ Len(first) > 2
            /\ IsSep(plat, first[1]) /\ IsSep(plat, first[2])
            /\ ~IsSep(plat, first[3]))
       /\ RunLength(plat, joined, TRUE) >= 2
    THEN <<"\\">> \o SubSeq(joined, RunLength(plat, joined, TRUE) + 1, Len(joined))
    ELSE joined

\* path.join(args.cwd, args.file, 'index.html'): the non-empty arguments
\* joined by the separator, then normalised; an absolute file does not
\* replace what is before it
PathJoin3(plat, cwd, file, leaf) ==
    PathNormalize(plat,
        JoinedParts(plat,
            SelectSeq(<<cwd, file, leaf>>, LAMBDA part : part # <<>>)[1],
            JoinSegments(SelectSeq(<<cwd, file, leaf>>, LAMBDA part : part # <<>>),
                         Sep(plat))))

\* aUrl.replace(/\\\//g, '/'): a backslash before a slash is dropped
RECURSIVE DropEscapedSlashes(_)
DropEscapedSlashes(s) ==
    IF s = <<>> THEN <<>>
    ELSE IF Len(s) >= 2 /\ s[1] = "\\" /\ s[2] = "/"
    THEN <<"/">> \o DropEscapedSlashes(Tail(Tail(s)))
    ELSE <<Head(s)>> \o DropEscapedSlashes(Tail(s))

\* coreUtils.forceForwardSlashes: then every backslash becomes a slash
ForceForwardSlashes(s) ==
    LET t == DropEscapedSlashes(s)
    IN [i \in 1 .. Len(t) |-> IF t[i] = "\\" THEN "/" ELSE t[i]]

\* the characters encodeURI leaves as they are
UriUnescaped ==
    {";", ",", "/", "?", ":", "@", "&", "=", "+", "$", "-", "_", ".",
     "!", "~", "*", "'", "(", ")", "#"}
    \cup {UpperLetters[i] : i \in 1 .. Len(UpperLetters)}
    \cup {LowerLetters[i] : i \in 1 .. Len(LowerLetters)}
    \cup {"0", "1", "2", "3", "4", "5", "6", "7", "8", "9"}

\* the octets of the UTF-8 encoding of a code point below U+10000
Utf8(cp) ==
    IF cp < 128 THEN <<cp>>
    ELSE IF cp < 2048 THEN <<192 + (cp \div 64), 128 + (cp % 64)>>
    ELSE <<224 + (cp \div 4096), 128 + ((cp \div 64) % 64), 128 + (cp % 64)>>

HexDigits ==
    <<"0", "1", "2", "3", "4", "5", "6", "7", "8", "9", "A", "B", "C", "D", "E", "F">>

\* '%' and the two hexadecimal digits of an octet
PercentOctet(o) == <<"%", HexDigits[(o \div 16) + 1], HexDigits[(o % 16) + 1]>>

\* encodeURI of one character: the octets of its UTF-8 encoding, escaped
EncodeChar(c) ==
    IF c \in UriUnescaped THEN <<c>>
    ELSE LET octets == Utf8(CodePoint(c))
         IN IF Len(octets) = 1 THEN PercentOctet(octets[1])
            ELSE IF Len(octets) = 2
            THEN PercentOctet(octets[1]) \o PercentOctet(octets[2])
            ELSE PercentOctet(octets[1]) \o PercentOctet(octets[2])
                 \o PercentOctet(octets[3])

\* encodeURI(s)
RECURSIVE EncodeURI(_)
EncodeURI(s) ==
    IF s = <<>> THEN <<>> ELSE EncodeChar(Head(s)) \o EncodeURI(Tail(s))

\* coreUtils.pathToFileURL(absPath): forward slashes, 'file://' in front of
\* a leading slash and 'file:///' otherwise, then encodeURI
PathToFileURL(p) ==
    LET fwd == ForceForwardSlashes(p)
    IN (IF fwd # <<>> /\ Head(fwd) = "/" THEN <<"file://">> ELSE <<"file:///">>)
       \o EncodeURI(fwd)

\* 'index.html'
IndexHtml == <<"i", "n", "d", "e", "x", ".", "h", "t", "m", "l">>

\* if (args.file)
TruthyFile(file) == file.defined /\ file.text # <<>>

\* launchUrl as launch() computes it; <<>> when it stays undefined
LaunchUrl(plat, args) ==
    IF TruthyFile(args.file)
    THEN PathToFileURL(PathJoin3(plat, Cwd(plat), args.file.text, IndexHtml))
    ELSE IF TruthyStr(args.url) THEN <<args.url>>
    ELSE <<>>

\* chromeArgs as launch() assembles it (args.file is a string here)
ChromeArgs(plat, args, port) ==
    LET launchUrl == LaunchUrl(plat, args)
    IN <<Arg(<<"--chromedebug">>, Undefined),
         Arg(<<"--remote-debugging-port=">>, port),
         Arg(PathResolve(plat, Cwd(plat), args.file.text), Undefined)>>
       \o (IF launchUrl # <<>> THEN <<Arg(launchUrl, Undefined)>> ELSE <<>>)

\* slip: the strategy is taken from the platform alone
SpawnStrategyPlatformOnly(plat, usingRuntimeExecutable) ==
    IF plat = "Windows" THEN "helper" ELSE "direct"

\* the strategy spawnChrome() takes: fork of the helper, or a detached spawn
SpawnStrategy(plat, usingRuntimeExecutable) ==
    IF plat = "Windows" /\ ~usingRuntimeExecutable THEN "helper" ELSE "direct"

\* slip: doAttach is handed args.port instead of the selected port
AttachPortFromArgs(args, port) == args.port

\* the port handed to doAttach: the port of the remote-debugging flag
AttachPort(args, port) == port

\* targetUrl handed to doAttach by launch(): launchUrl || args.urlFilter;
\* <<>> when both are undefined
AttachTarget(plat, args) ==
    IF LaunchUrl(plat, args) # <<>> THEN LaunchUrl(plat, args)
    ELSE IF args.urlFilter # UNDEF THEN <<args.urlFilter>>
    ELSE <<>>

\* attach(): if (args.urlFilter) args.url = args.urlFilter
AttachRequestArgs(args) ==
    [args EXCEPT !.url = IF TruthyStr(args.urlFilter) THEN args.urlFilter ELSE @]

\* slip: the rejection handler runs the build again instead of rejecting
OnBuildRejectedRetry(l) ==
    [l EXCEPT !.pc = "build", !.buildOutcome = "rejected",
              !.buildCalls = @ + 1, !.steps = Append(@, "build")]

\* the rejection handler of the build: launch() rejects with a synthesized
\* {id, format: 'Compilation failed.'}; nothing is spawned, nothing is retried
OnBuildRejected(l) ==
    [l EXCEPT !.pc = "rejected", !.buildOutcome = "rejected",
              !.reject = "Compilation failed."]

\* slip: the probe's promise is returned, so doAttach waits for the probe
PcAfterAttachAwaitingProbe == "probe"

\* what doAttach's continuation leaves the request's promise in once
\* super.doAttach has resolved: the probe's promise is not returned
PcAfterAttach == "resolved"

\* slip: the cache stays enabled only on an explicit false
CacheDisabledUnlessFalse(flag) == flag # 0

\* const cacheDisabled = this._launchAttachArgs.disableNetworkCache || false
CacheDisabled(flag) == flag = 1

(* ---------------------------------------------------------------------- *)
(* resolveWebRootPattern: strings are sequences of characters              *)
(* ---------------------------------------------------------------------- *)
\* '${webRoot}'
Placeholder == <<"$", "{", "w", "e", "b", "R", "o", "o", "t", "}">>

\* the webRoot argument: undefined, '', '/r', and directories whose names
\* are '$&', "$'" and '$' followed by a grave accent
WebRoots ==
    {NoStr,
     Str(<<>>),
     Str(<<"/", "r">>),
     Str(<<"/", "r", "/", "$", "&">>),
     Str(<<"/", "r", "/", "$", "'">>),
     Str(<<"/", "r", "/", "$", Backtick>>)}

\* if (webRoot)
TruthyRoot(webRoot) == webRoot.defined /\ webRoot.text # <<>>

\* the keys of a table
OverrideKeys == {"a", "b"}

\* the replacements of a table: '*', '${webRoot}/x', 'x/${webRoot}',
\* '${webRoot}/${webRoot}'
Replacements ==
    {<<"*">>,
     Placeholder \o <<"/", "x">>,
     <<"x", "/">> \o Placeholder,
     Placeholder \o <<"/">> \o Placeholder}

\* the tables: their entries in insertion order, every key once
OverrideTables ==
    {t \in UNION {[1 .. n -> [key : OverrideKeys, value : Replacements]] :
                      n \in 0 .. MaxEntries} :
        \A i, j \in 1 .. Len(t) : t[i].key = t[j].key => i = j}

\* s.indexOf(pat): the 0-based index of the first occurrence, -1 when none
IndexOf(s, pat) ==
    LET hits == {i \in 0 .. (Len(s) - Len(pat)) :
                    SubSeq(s, i + 1, i + Len(pat)) = pat}
    IN IF hits = {} THEN -1
       ELSE CHOOSE i \in hits : \A j \in hits : i <= j

\* GetSubstitution of String.prototype.replace for a string pattern: in the
\* replacement text '$$' stands for '$', '$&' for the matched text, '$' and
\* a grave accent for the text before the match, "$'" for the text after
\* it; with no capture groups every other '$' stands for itself
RECURSIVE GetSubstitution(_, _, _, _)
GetSubstitution(rep, matched, before, after) ==
    IF rep = <<>> THEN <<>>
    ELSE IF /\ Head(rep) = "$"
            /\ Len(rep) >= 2
            /\ (rep[2] = "$" \/ rep[2] = "&" \/ rep[2] = Backtick \/ rep[2] = "'")
    THEN (CASE rep[2] = "$" -> <<"$">>
            [] rep[2] = "&" -> matched
            [] rep[2] = Backtick -> before
            [] rep[2] = "'" -> after)
         \o GetSubstitution(Tail(Tail(rep)), matched, before, after)
    ELSE <<Head(rep)>> \o GetSubstitution(Tail(rep), matched, before, after)

\* s.replace(pat, rep) for strings: the first occurrence only
Replace(s, pat, rep) ==
    LET i == IndexOf(s, pat)
    IN IF i = -1 THEN s
       ELSE LET before == SubSeq(s, 1, i)
                after == SubSeq(s, i + Len(pat) + 1, Len(s))
            IN before \o GetSubstitution(rep, pat, before, after) \o after

\* the value resolvedOverrides[pattern] gets for one entry
ResolveEntry(webRoot, replacePattern) ==
    IF IndexOf(replacePattern, Placeholder) = 0 /\ TruthyRoot(webRoot)
    THEN Replace(replacePattern, Placeholder, webRoot.text)
    ELSE replacePattern

\* the warning logged for one entry, "" when there is none
EntryWarning(webRoot, replacePattern, warnOnMissing) ==
    LET i == IndexOf(replacePattern, Placeholder)
    IN IF i = 0 /\ ~TruthyRoot(webRoot) /\ warnOnMissing THEN "webRoot is not set"
       ELSE IF i > 0 THEN "only valid at the beginning"
       ELSE ""

\* resolveWebRootPattern(webRoot, sourceMapPathOverrides, warnOnMissing): the
\* table returned, the caller's table after the call, and the warnings logged
ResolveWebRootPattern(webRoot, overrides, warnOnMissing) ==
    [output |-> [i \in 1 .. Len(overrides) |->
                    [key |-> overrides[i].key,
                     value |-> ResolveEntry(webRoot, overrides[i].value)]],
     inputAfter |-> overrides,
     log |-> SelectSeq([i \in 1 .. Len(overrides) |->
                          EntryWarning(webRoot, overrides[i].value, warnOnMissing)],
                       LAMBDA w : w # "")]

(* ---------------------------------------------------------------------- *)
(* The overlay debounce.  overlay.ops is the run so far: "paused",         *)
(* "resumed" and "fire" (a timer expires).  An action is named by the      *)
(* position in ops of the event that submitted it.  overlay.helper counts  *)
(* the helpers initialize() has created (0: this._overlayHelper is         *)
(* undefined), overlay.helpers gives for every position of ops the helper  *)
(* in use then; overlay.timers are the armed timers, of whichever helper,  *)
(* overlay.waitToken the one the helper in use holds (0: none),            *)
(* overlay.ran the requests sent, each with the position it was sent at.   *)
(* ---------------------------------------------------------------------- *)
PAGE_PAUSE_MESSAGE == "Paused in Kode Studio"

\* the message of Page.configureOverlay({ }): none
NoMessage == ""

\* the request the action submitted by the event at position id sends
OverlayMessage(o, id) ==
    IF o.ops[id] = "paused" THEN PAGE_PAUSE_MESSAGE ELSE NoMessage

\* the action submitted at position id runs now
RunOverlayAction(o, id) ==
    [o EXCEPT !.ran = Append(@, [id |-> id, at |-> Len(o.ops),
                                 message |-> OverlayMessage(o, id)])]

\* DebounceHelper.wait(fn): fn is armed to run after the delay and
\* supersedes an action that is still pending
DebounceWait(o, id) ==
    [o EXCEPT !.timers = (@ \ {o.waitToken}) \cup {id}, !.waitToken = id]

\* DebounceHelper.doAndCancel(fn): the pending action is cancelled and fn
\* runs at once
DebounceDoAndCancel(o, id) ==
    RunOverlayAction([o EXCEPT !.timers = @ \ {o.waitToken}, !.waitToken = 0], id)

\* slip: onPaused sends the request itself and leaves the helper alone
OverlayOnPausedNoCancel(o, id) == RunOverlayAction(o, id)

\* onPaused: this._overlayHelper.doAndCancel(() => configureOverlay({message}))
OverlayOnPaused(o, id) == DebounceDoAndCancel(o, id)

\* slip: onResumed arms a timer of its own with setTimeout, past the helper
OverlayOnResumedOwnTimer(o, id) == [o EXCEPT !.timers = @ \cup {id}]

\* onResumed: this._overlayHelper.wait(() => configureOverlay({ }))
OverlayOnResumed(o, id) == DebounceWait(o, id)

(* ---------------------------------------------------------------------- *)
(* Teardown helpers (disconnect)                                           *)
(* ---------------------------------------------------------------------- *)
\* slip: the kill is guarded by the handle alone
ShouldKillAnyHandle(chromeProc, hadTerminated) == chromeProc # NoProc

\* if (this._chromeProc && !hadTerminated)
ShouldKill(chromeProc, hadTerminated) == chromeProc # NoProc /\ ~hadTerminated

\* slip: hadTerminated guards the signal only, the kill by pid runs regardless
KillMechanismPidUnguarded(chromeProc, hadTerminated, plat, chromePID) ==
    IF chromeProc # NoProc /\ plat = "Windows" /\ TruthyValue(chromePID) THEN "taskkill"
    ELSE IF ShouldKill(chromeProc, hadTerminated) THEN "sigint"
    ELSE "none"

\* the kill disconnect() attempts: "taskkill", "sigint" or "none"
KillMechanism(chromeProc, hadTerminated, plat, chromePID) ==
    IF ShouldKill(chromeProc, hadTerminated)
    THEN (IF plat = "Windows" /\ TruthyValue(chromePID) THEN "taskkill" ELSE "sigint")
    ELSE "none"

\* slip: execSync(taskkillCmd) without the try/catch around it
TaskkillSurfacesUncaught(tk) == tk = "failed"

\* execSync(taskkillCmd) sits in try { } catch (e) { }: its failure is not rethrown
TaskkillSurfaces(tk) == FALSE

\* ChildProcess.kill('SIGINT') reports EPERM by emitting 'error' on the handle;
\* a delivered signal returns true, an already dead process returns false
SigintEmitsError(sg) == sg = "eperm"

\* slip: the process is killed first and the base disconnect runs last
DisconnectEffectsKillFirst(mech, errEvent) ==
    (IF mech = "none" THEN <<>> ELSE <<mech>>)
    \o (IF errEvent THEN <<"error">> ELSE <<>>)
    \o <<"detach">>

\* slip: the else of lines 214-216 is lost, so SIGINT follows the taskkill
KillAttemptsFallThrough(mech) ==
    IF mech = "none" THEN <<>>
    ELSE IF mech = "taskkill" THEN <<"taskkill", "sigint">> ELSE <<mech>>

\* the kill attempts of one disconnect(): the if/else of lines 203-217 runs
\* one branch, so one attempt by the chosen mechanism, or none
KillAttempts(mech) == IF mech = "none" THEN <<>> ELSE <<mech>>

\* the order of the steps of disconnect(): the base disconnect, then the kill
DisconnectEffects(mech, errEvent) ==
    <<"detach">>
    \o KillAttempts(mech)
    \o (IF errEvent THEN <<"error">> ELSE <<>>)

\* slip: disconnect() forgets the pid together with the handle
PidAfterDisconnectCleared(chromePID) == NoNumber

\* this._chromePID after disconnect(): line 221 clears this._chromeProc only
PidAfterDisconnect(chromePID) == chromePID

TaskkillOutcomes == {"ok", "failed"}
SigintOutcomes == {"delivered", "gone", "eperm"}

\* the outcomes the kill by a mechanism can have; "" when nothing is killed
KillOutcomes(mech) ==
    CASE mech = "taskkill" -> TaskkillOutcomes
      [] mech = "sigint" -> SigintOutcomes
      [] OTHER -> {""}

\* slip: the handler only logs, as the helper's own 'error' handler does
OnChromeProcErrorLogOnly(err) == [terminates |-> FALSE, reason |-> <<"Chrome error: ", err>>]

\* the handler launch() registers on the process: terminateSession('Chrome error: ' + err)
OnChromeProcError(err) == [terminates |-> TRUE, reason |-> <<"Chrome error: ", err>>]

NoReason == <<>>


(* ---------------------------------------------------------------------- *)
(* State                                                                   *)
(* ---------------------------------------------------------------------- *)
VARIABLES
    platform,            \* coreUtils.getPlatform()
    spawnChromeInScope,  \* whether the bare name spawnChrome of line 121 is bound
    _chromeProc,         \* this._chromeProc: NoProc or the index of a spawned process
    _chromePID,          \* this._chromePID
    _hasTerminated,      \* this._hasTerminated of the base adapter
    _launchAttachArgs,   \* this._launchAttachArgs: the args of the latest request
    procs,               \* the processes spawned so far, each with its strategy
    launches,            \* the promise chains of the launch() and attach() calls
    launchCount,         \* launch() and attach() calls so far
    cacheRequest,        \* cacheDisabled of the latest Network.setCacheDisabled request
    lastTerminate,       \* the reason of the adapter's latest terminateSession call
    lastCall,            \* the handler that ran last and what it did
    disconnectCount,     \* disconnect() calls so far
    disconnectsSinceLaunch, \* disconnect() calls since the latest launch() call
    eventCount,          \* process events delivered so far
    kills,               \* kill attempts made so far, by either mechanism
    reported,            \* the spawned processes whose 'message' event was delivered
    overlay,             \* the overlay debounce: timers, pause/resume events, requests
    resolved             \* the latest call of resolveWebRootPattern and its result

vars == <<platform, spawnChromeInScope, _chromeProc, _chromePID, _hasTerminated,
          _launchAttachArgs, procs, launches, launchCount, cacheRequest,
          lastTerminate, lastCall, disconnectCount, disconnectsSinceLaunch,
          eventCount, kills, reported, overlay, resolved>>

envVars == <<platform, spawnChromeInScope>>

\* the state of the components that the lifecycle handlers do not touch
auxVars == <<overlay, resolved>>

NoArgs == [port |-> Undefined, runtimeExecutable |-> UNDEF, file |-> NoStr,
           url |-> UNDEF, urlFilter |-> UNDEF, noDebug |-> FALSE,
           disableNetworkCache |-> Undefined]

NoSpawn ==
    [strategy |-> "", chromePath |-> UNDEF,
     usingRuntimeExecutable |-> FALSE, port |-> Undefined, platform |-> ""]

\* the promise chain of a request that was just made: kind is "launch" or
\* "attach", probe the state of its user-agent probe ("", "pending", "ok",
\* "failed"), cache the cacheDisabled its continuation has sent
NewRequest(kind, args) ==
    [kind |-> kind, pc |-> "", args |-> args, port |-> Undefined, steps |-> <<>>,
     buildCalls |-> 0, spawned |-> 0, attachPort |-> Undefined,
     attachTarget |-> <<>>, buildOutcome |-> "", attachOutcome |-> "",
     probe |-> "", cache |-> Undefined, reject |-> "", spawn |-> NoSpawn,
     vector |-> <<>>]

\* the overlay after construction: this._overlayHelper is undefined until
\* initialize() runs, nothing is armed, nothing was sent
IdleOverlay ==
    [helper |-> 0, waitToken |-> 0, timers |-> {}, ops |-> <<>>,
     helpers |-> <<>>, ran |-> <<>>]

\* no call of resolveWebRootPattern
NoResolve ==
    [called |-> FALSE, webRoot |-> NoStr,
     input |-> <<>>, warnOnMissing |-> FALSE, output |-> <<>>,
     inputAfter |-> <<>>, log |-> <<>>]

Call(op) ==
    [op |-> op, effects |-> <<>>, threw |-> FALSE, hadTerminated |-> FALSE,
     held |-> FALSE, mech |-> "none", outcome |-> "", err |-> "",
     strategy |-> "", proc |-> NoProc, pid |-> NoNumber, msg |-> <<>>]

\* the fields of the adapter after construction
NewAdapter ==
    /\ platform \in Platforms
    /\ _chromeProc = NoProc
    /\ _chromePID = NoNumber
    /\ _hasTerminated = FALSE
    /\ _launchAttachArgs = NoArgs
    /\ procs = <<>>
    /\ launches = <<>>
    /\ launchCount = 0
    /\ cacheRequest = Undefined
    /\ lastTerminate = NoReason
    /\ lastCall = Call("init")
    /\ disconnectCount = 0
    /\ disconnectsSinceLaunch = 0
    /\ eventCount = 0
    /\ kills = 0
    /\ reported = {}

\* the adapter after construction.  Line 121 calls spawnChrome by its bare
\* name; the module declares and imports no such name (spawnChrome is a
\* method, line 231), so the name is not bound and the call throws a
\* ReferenceError.
InitLifecycle ==
    /\ NewAdapter
    /\ spawnChromeInScope = FALSE

Init ==
    /\ InitLifecycle
    /\ overlay = IdleOverlay
    /\ resolved = NoResolve

\* The program as written never gets past line 121, so it spawns nothing,
\* receives no process event and kills nothing.  The handlers of lines
\* 122-126, 196-222 and 231-250 are checked in a superset of its behaviours:
\* those of the adapter as written together with those of the adapter whose
\* line 121 reaches the method of line 231.  Every behaviour of the program
\* is one of them, so what holds in all of them holds of the program; a
\* behaviour that spawns is not one of the program, and nothing is refuted
\* by one.
InitSpawnOrThrow ==
    /\ NewAdapter
    /\ spawnChromeInScope \in BOOLEAN
    /\ overlay = IdleOverlay
    /\ resolved = NoResolve

(* ---------------------------------------------------------------------- *)
(* launch(): super.launch(args).then(build.then(spawn and attach, reject)) *)
(* attach(): super.attach(args), which runs doAttach                       *)
(* Nothing keeps a request from being made while an earlier one is in      *)
(* flight: launches holds one promise chain for every request, and every   *)
(* step below is the step of the chain at position i.                      *)
(* ---------------------------------------------------------------------- *)
\* the probe of a chain has settled and its continuation, which sends the
\* cache request, has not run yet
CachePending(l) == l.probe \in {"ok", "failed"} /\ l.cache = Undefined

\* a chain that no step can move any more
Settled(l) ==
    /\ l.pc \in {"resolved", "rejected"}
    /\ l.probe # "pending"
    /\ ~CachePending(l)

\* the chains that are kept when a request is made: those still in flight
InFlight(ls) == SelectSeq(ls, LAMBDA l : ~Settled(l))

\* launch(args) is called: super.launch(args) keeps args as
\* this._launchAttachArgs and is started
LaunchCall(args, limit) ==
    /\ launchCount < limit
    /\ launches' = Append(InFlight(launches),
                          [NewRequest("launch", args) EXCEPT
                               !.pc = "superLaunch",
                               !.steps = <<"superLaunch">>])
    /\ _launchAttachArgs' = args
    /\ launchCount' = launchCount + 1
    /\ disconnectsSinceLaunch' = 0
    /\ lastCall' = Call("other")
    /\ UNCHANGED <<envVars, auxVars, reported, kills, _chromeProc, _chromePID,
                   _hasTerminated, procs, cacheRequest, lastTerminate,
                   disconnectCount, eventCount>>

Launch(args) == LaunchCall(args, MaxLaunches)

\* attach(args) is called: args.url is overwritten by a truthy urlFilter,
\* super.attach(args) keeps args as this._launchAttachArgs and calls
\* doAttach(args.port, args.url, ...); nothing is built, nothing is spawned
AttachCall(args, limit) ==
    /\ launchCount < limit
    /\ LET a == AttachRequestArgs(args)
       IN /\ launches' = Append(InFlight(launches),
                                [NewRequest("attach", a) EXCEPT
                                     !.pc = "attach",
                                     !.steps = <<"attach">>,
                                     !.attachPort = a.port,
                                     !.attachTarget = IF a.url = UNDEF THEN <<>>
                                                      ELSE <<a.url>>])
          /\ _launchAttachArgs' = a
    /\ launchCount' = launchCount + 1
    /\ lastCall' = Call("other")
    /\ UNCHANGED <<envVars, auxVars, reported, kills, _chromeProc, _chromePID,
                   _hasTerminated, procs, cacheRequest, lastTerminate,
                   disconnectCount, disconnectsSinceLaunch, eventCount>>

Attach(args) == AttachCall(args, MaxLaunches)

\* super.launch settles; on success the build collaborator is run once
SuperLaunchSettle(i, ok) ==
    /\ i \in 1 .. Len(launches)
    /\ launches[i].pc = "superLaunch"
    /\ launches' =
          [launches EXCEPT ![i] =
              IF ok
              THEN [@ EXCEPT !.pc = "build",
                             !.steps = Append(@, "build"),
                             !.buildCalls = @ + 1]
              ELSE [@ EXCEPT !.pc = "rejected", !.reject = "superLaunch"]]
    /\ lastCall' = Call("other")
    /\ UNCHANGED <<envVars, auxVars, reported, kills, _chromeProc, _chromePID,
                   _hasTerminated, _launchAttachArgs, procs, launchCount,
                   cacheRequest, lastTerminate, disconnectCount,
                   disconnectsSinceLaunch, eventCount>>

\* the build rejects: 'Launch canceled.' is logged and launch() rejects
BuildReject(i) ==
    /\ i \in 1 .. Len(launches)
    /\ launches[i].pc = "build"
    /\ launches' = [launches EXCEPT ![i] = OnBuildRejected(@)]
    /\ lastCall' = Call("buildReject")
    /\ UNCHANGED <<envVars, auxVars, reported, kills, _chromeProc, _chromePID,
                   _hasTerminated, _launchAttachArgs, procs, launchCount,
                   cacheRequest, lastTerminate, disconnectCount,
                   disconnectsSinceLaunch, eventCount>>

\* the build resolves: lines 88-129 run in one turn.  They throw, and so
\* reject launch(), when args.runtimeExecutable is undefined (lastIndexOf of
\* undefined), when args.file is undefined (path.resolve of a non-string),
\* at line 121, where the bare name spawnChrome is not bound, and, where the
\* superset of InitSpawnOrThrow lets line 121 reach the method of line 231,
\* in a runtime that validates it, when the detached spawn is given an empty
\* file name.
\* k is the draw of Math.random(), which is made only when args.port is
\* falsy; emptyPathThrows is what the runtime does with an empty file name,
\* which shows only in a detached spawn of one.
BuildResolve(i, k, emptyPathThrows) ==
    /\ i \in 1 .. Len(launches)
    /\ launches[i].pc = "build"
    /\ TruthyNum(launches[i].args.port) => k = 0
    /\ emptyPathThrows =>
          /\ launches[i].args.runtimeExecutable = ""
          /\ SpawnStrategy(platform, FALSE) = "direct"
    /\ LET args == launches[i].args
           port == SelectPort(args.port, k)
           using == TruthyStr(args.runtimeExecutable)
           strategy == SpawnStrategy(platform, using)
           thrown ==
               IF args.runtimeExecutable = UNDEF THEN "TypeError"
               ELSE IF ~args.file.defined THEN "TypeError"
               ELSE IF ~spawnChromeInScope THEN "ReferenceError"
               ELSE IF strategy = "direct" /\ args.runtimeExecutable = ""
                       /\ emptyPathThrows THEN "TypeError"
               ELSE ""
           \* lines 105-118 have run: neither line 90 nor line 107 threw
           assembled == args.runtimeExecutable # UNDEF /\ args.file.defined
           chromeArgs == ChromeArgs(platform, args, port)
           spawned == [strategy |-> strategy,
                       chromePath |-> args.runtimeExecutable,
                       usingRuntimeExecutable |-> using,
                       port |-> port,
                       platform |-> platform]
       IN IF thrown # ""
          THEN /\ launches' =
                    [launches EXCEPT ![i] =
                        [@ EXCEPT !.pc = "rejected",
                                  !.buildOutcome = "resolved",
                                  !.port = IF args.runtimeExecutable = UNDEF
                                           THEN Undefined ELSE port,
                                  !.vector = IF assembled THEN chromeArgs
                                             ELSE <<>>,
                                  !.reject = thrown]]
               /\ UNCHANGED <<_chromeProc, procs>>
          ELSE /\ procs' = Append(procs, strategy)
               /\ _chromeProc' = Len(procs) + 1
               /\ launches' =
                    [launches EXCEPT ![i] =
                        IF args.noDebug
                        THEN [@ EXCEPT !.pc = "resolved",
                                       !.buildOutcome = "resolved",
                                       !.port = port,
                                       !.spawned = @ + 1,
                                       !.spawn = spawned,
                                       !.vector = chromeArgs,
                                       !.steps = Append(@, "spawn")]
                        ELSE [@ EXCEPT !.pc = "attach",
                                       !.buildOutcome = "resolved",
                                       !.port = port,
                                       !.spawned = @ + 1,
                                       !.spawn = spawned,
                                       !.vector = chromeArgs,
                                       !.attachPort = AttachPort(args, port),
                                       !.attachTarget = AttachTarget(platform, args),
                                       !.steps = @ \o <<"spawn", "attach">>]]
    /\ lastCall' = Call("other")
    /\ UNCHANGED <<envVars, auxVars, reported, kills, _chromePID, _hasTerminated,
                   _launchAttachArgs, launchCount, cacheRequest, lastTerminate,
                   disconnectCount, disconnectsSinceLaunch, eventCount>>

\* super.doAttach settles.  On success the user-agent probe is issued and
\* doAttach resolves without waiting for it; on failure the request rejects.
AttachSettle(i, ok) ==
    /\ i \in 1 .. Len(launches)
    /\ launches[i].pc = "attach"
    /\ launches' =
          [launches EXCEPT ![i] =
              IF ok
              THEN [@ EXCEPT !.pc = PcAfterAttach, !.attachOutcome = "ok",
                             !.probe = "pending"]
              ELSE [@ EXCEPT !.pc = "rejected", !.attachOutcome = "failed",
                             !.reject = "attach"]]
    /\ lastCall' = Call("other")
    /\ UNCHANGED <<envVars, auxVars, reported, kills, _chromeProc, _chromePID,
                   _hasTerminated, _launchAttachArgs, procs, launchCount,
                   cacheRequest, lastTerminate, disconnectCount,
                   disconnectsSinceLaunch, eventCount>>

\* the probe settles: the handler of its outcome logs (lines 164-165)
ProbeSettle(i, ok) ==
    /\ i \in 1 .. Len(launches)
    /\ launches[i].probe = "pending"
    /\ launches' = [launches EXCEPT ![i] =
                       [@ EXCEPT !.probe = IF ok THEN "ok" ELSE "failed"]]
    /\ lastCall' = [Call("probeSettle") EXCEPT !.outcome = IF ok THEN "ok" ELSE "failed"]
    /\ UNCHANGED <<envVars, auxVars, reported, kills, _chromeProc, _chromePID,
                   _hasTerminated, _launchAttachArgs, procs, launchCount,
                   cacheRequest, lastTerminate, disconnectCount,
                   disconnectsSinceLaunch, eventCount>>

\* the continuation of the probe's handlers (lines 167-169), a callback of
\* its own: the cache request is sent with the setting that
\* this._launchAttachArgs holds when it runs
CacheSend(i) ==
    /\ i \in 1 .. Len(launches)
    /\ CachePending(launches[i])
    /\ LET cacheDisabled ==
               IF CacheDisabled(_launchAttachArgs.disableNetworkCache) THEN 1 ELSE 0
       IN /\ launches' = [launches EXCEPT ![i] = [@ EXCEPT !.cache = cacheDisabled]]
          /\ cacheRequest' = cacheDisabled
    /\ lastCall' = [Call("cacheSend") EXCEPT !.outcome = launches[i].probe]
    /\ UNCHANGED <<envVars, auxVars, reported, kills, _chromeProc, _chromePID,
                   _hasTerminated, _launchAttachArgs, procs, launchCount,
                   lastTerminate, disconnectCount, disconnectsSinceLaunch,
                   eventCount>>

(* ---------------------------------------------------------------------- *)
(* Events of the spawned process and of the session                        *)
(* ---------------------------------------------------------------------- *)
\* chromeProc.on('message'): the helper reports the debuggee's pid
PidMessage(p, pidStr) ==
    /\ eventCount < MaxEvents
    /\ p \in 1 .. Len(procs)
    /\ procs[p] = "helper"
    /\ _chromePID' = ParseInt(pidStr)
    /\ reported' = reported \cup {p}
    /\ eventCount' = eventCount + 1
    /\ lastCall' = [Call("pidMessage") EXCEPT !.msg = pidStr]
    /\ UNCHANGED <<envVars, auxVars, kills, _chromeProc, _hasTerminated,
                   _launchAttachArgs, procs, launches, launchCount, cacheRequest,
                   lastTerminate, disconnectCount, disconnectsSinceLaunch>>

\* 'error' of a spawned process: the helper's own handler only logs, the
\* handler launch() registered on every process terminates the session
ProcError(p, err) ==
    /\ eventCount < MaxEvents
    /\ p \in 1 .. Len(procs)
    /\ LET h == OnChromeProcError(err)
       IN /\ _hasTerminated' = (_hasTerminated \/ h.terminates)
          /\ lastTerminate' = IF h.terminates THEN h.reason ELSE lastTerminate
    /\ eventCount' = eventCount + 1
    /\ lastCall' = [Call("procError") EXCEPT !.err = err, !.effects = <<"error">>,
                                             !.strategy = procs[p]]
    /\ UNCHANGED <<envVars, auxVars, reported, kills, _chromeProc, _chromePID,
                   _launchAttachArgs, procs, launches, launchCount, cacheRequest,
                   disconnectCount, disconnectsSinceLaunch>>

\* the base adapter terminates the session on its own: the debuggee closed
\* or another client took the connection over
SelfTerminate ==
    /\ ~_hasTerminated
    /\ _hasTerminated' = TRUE
    /\ lastCall' = Call("other")
    /\ UNCHANGED <<envVars, auxVars, reported, kills, _chromeProc, _chromePID,
                   _launchAttachArgs, procs, launches, launchCount, cacheRequest,
                   lastTerminate, disconnectCount, disconnectsSinceLaunch,
                   eventCount>>

(* ---------------------------------------------------------------------- *)
(* disconnect()                                                            *)
(* ---------------------------------------------------------------------- *)
\* outcome is what the kill that disconnect() attempts comes to
Disconnect(outcome) ==
    /\ disconnectCount < MaxDisconnects
    /\ LET hadTerminated == _hasTerminated
           mech == KillMechanism(_chromeProc, hadTerminated, platform, _chromePID)
           errEvent == mech = "sigint" /\ SigintEmitsError(outcome)
           threw == mech = "taskkill" /\ TaskkillSurfaces(outcome)
           h == OnChromeProcError("EPERM")
       IN /\ outcome \in KillOutcomes(mech)
          /\ _hasTerminated' = TRUE
          /\ _chromePID' = PidAfterDisconnect(_chromePID)
          /\ lastTerminate' = IF errEvent /\ h.terminates THEN h.reason
                              ELSE lastTerminate
          /\ _chromeProc' = IF threw THEN _chromeProc ELSE NoProc
          /\ kills' = IF mech = "none" THEN kills ELSE kills + 1
          /\ lastCall' = [op |-> "disconnect",
                          effects |-> DisconnectEffects(mech, errEvent)
                                      \o (IF threw THEN <<"throw">> ELSE <<"clear">>),
                          threw |-> threw,
                          hadTerminated |-> hadTerminated,
                          held |-> _chromeProc # NoProc,
                          proc |-> _chromeProc,
                          pid |-> IF mech = "taskkill" THEN _chromePID ELSE NoNumber,
                          msg |-> <<>>,
                          strategy |-> IF _chromeProc # NoProc
                                       THEN procs[_chromeProc] ELSE "",
                          mech |-> mech,
                          outcome |-> outcome,
                          err |-> IF errEvent THEN "EPERM" ELSE ""]
    /\ disconnectCount' = disconnectCount + 1
    /\ disconnectsSinceLaunch' = disconnectsSinceLaunch + 1
    /\ UNCHANGED <<envVars, auxVars, reported, _launchAttachArgs, procs, launches,
                   launchCount, cacheRequest, eventCount>>

Next ==
    \/ \E args \in LifecycleArgs : Launch(args)
    \/ \E i \in 1 .. MaxLaunches, ok \in BOOLEAN : SuperLaunchSettle(i, ok)
    \/ \E i \in 1 .. MaxLaunches : BuildReject(i)
    \/ \E i \in 1 .. MaxLaunches, k \in EdgeDraws, t \in BOOLEAN :
          BuildResolve(i, k, t)
    \/ \E i \in 1 .. MaxLaunches, ok \in BOOLEAN : AttachSettle(i, ok)
    \/ \E i \in 1 .. MaxLaunches, ok \in BOOLEAN : ProbeSettle(i, ok)
    \/ \E i \in 1 .. MaxLaunches : CacheSend(i)
    \/ \E p \in 1 .. MaxLaunches, s \in PidStrings : PidMessage(p, s)
    \/ \E p \in 1 .. MaxLaunches, e \in ProcErrors : ProcError(p, e)
    \/ SelfTerminate
    \/ \E o \in TaskkillOutcomes \cup SigintOutcomes \cup {""} : Disconnect(o)

\* the lifecycle in the superset in which line 121 may reach the method
Spec == InitSpawnOrThrow /\ [][Next]_vars

(* ---------------------------------------------------------------------- *)
(* Repeated and overlapping launches of one adapter: the recorded pid      *)
(* across disconnect() and later launches                                  *)
(* ---------------------------------------------------------------------- *)
Relaunch(args) == LaunchCall(args, MaxRelaunches)

NextRelaunch ==
    \/ \E args \in RelaunchArgs : Relaunch(args)
    \/ \E i \in 1 .. MaxRelaunches, ok \in BOOLEAN : SuperLaunchSettle(i, ok)
    \/ \E i \in 1 .. MaxRelaunches : BuildReject(i)
    \/ \E i \in 1 .. MaxRelaunches, k \in RandomDraws, t \in BOOLEAN :
          BuildResolve(i, k, t)
    \/ \E p \in 1 .. MaxRelaunches, s \in PidStrings : PidMessage(p, s)
    \/ \E p \in 1 .. MaxRelaunches, e \in ProcErrors : ProcError(p, e)
    \/ SelfTerminate
    \/ \E o \in TaskkillOutcomes \cup SigintOutcomes \cup {""} : Disconnect(o)

SpecRelaunch == InitSpawnOrThrow /\ [][NextRelaunch]_vars

\* the program as written over the same requests: no process exists, so no
\* process event is delivered
NextTeardown ==
    \/ \E args \in RelaunchArgs : Relaunch(args)
    \/ \E i \in 1 .. MaxRelaunches, ok \in BOOLEAN : SuperLaunchSettle(i, ok)
    \/ \E i \in 1 .. MaxRelaunches : BuildReject(i)
    \/ \E i \in 1 .. MaxRelaunches, k \in RandomDraws, t \in BOOLEAN :
          BuildResolve(i, k, t)
    \/ SelfTerminate
    \/ \E o \in TaskkillOutcomes \cup SigintOutcomes \cup {""} : Disconnect(o)

SpecTeardown == Init /\ [][NextTeardown]_vars

(* ---------------------------------------------------------------------- *)
(* Launches over every value of the fields that the port, the launch URL   *)
(* and the argument vector are computed from, in the program as written:   *)
(* every launch ends at line 121 or before it, so none reaches doAttach    *)
(* ---------------------------------------------------------------------- *)
NextArgs ==
    \/ \E args \in VectorArgs : Launch(args)
    \/ \E i \in 1 .. MaxLaunches, ok \in BOOLEAN : SuperLaunchSettle(i, ok)
    \/ \E i \in 1 .. MaxLaunches : BuildReject(i)
    \/ \E i \in 1 .. MaxLaunches, k \in RandomDraws, t \in BOOLEAN :
          BuildResolve(i, k, t)

SpecArgs == Init /\ [][NextArgs]_vars

(* ---------------------------------------------------------------------- *)
(* doAttach, reached from launch() and from attach(): the probe and the    *)
(* cache setting                                                           *)
(* ---------------------------------------------------------------------- *)
NextAttach ==
    \/ \E args \in CacheArgs : LaunchCall(args, MaxRequests)
    \/ \E args \in AttachArgs : AttachCall(args, MaxRequests)
    \/ \E i \in 1 .. MaxRequests, ok \in BOOLEAN : SuperLaunchSettle(i, ok)
    \/ \E i \in 1 .. MaxRequests : BuildReject(i)
    \/ \E i \in 1 .. MaxRequests, k \in EdgeDraws, t \in BOOLEAN :
          BuildResolve(i, k, t)
    \/ \E i \in 1 .. MaxRequests, ok \in BOOLEAN : AttachSettle(i, ok)
    \/ \E i \in 1 .. MaxRequests, ok \in BOOLEAN : ProbeSettle(i, ok)
    \/ \E i \in 1 .. MaxRequests : CacheSend(i)

SpecAttach == InitSpawnOrThrow /\ [][NextAttach]_vars

\* the continuation that sends the cache request is a promise callback: once
\* the probe's handler has run it is queued, and a queued callback is run
SpecAttachFair ==
    SpecAttach /\ WF_vars(\E i \in 1 .. MaxRequests : CacheSend(i))

(* ---------------------------------------------------------------------- *)
(* resolveWebRootPattern applied to every root and table                   *)
(* ---------------------------------------------------------------------- *)
\* the lifecycle variables, which the other components leave alone
lifecycleVars ==
    <<platform, spawnChromeInScope, _chromeProc, _chromePID, _hasTerminated,
      _launchAttachArgs, procs, launches, launchCount, cacheRequest,
      lastTerminate, lastCall, disconnectCount, disconnectsSinceLaunch,
      eventCount, kills, reported>>

InitResolve ==
    /\ InitLifecycle
    /\ overlay = IdleOverlay
    /\ \E webRoot \in WebRoots, input \in OverrideTables, warn \in BOOLEAN :
          resolved = [NoResolve EXCEPT !.webRoot = webRoot, !.input = input,
                                       !.inputAfter = input,
                                       !.warnOnMissing = warn]

\* the call resolveWebRootPattern(webRoot, input, warnOnMissing)
Resolve ==
    /\ ~resolved.called
    /\ LET r == ResolveWebRootPattern(resolved.webRoot, resolved.input,
                                      resolved.warnOnMissing)
       IN resolved' = [resolved EXCEPT !.called = TRUE,
                                       !.output = r.output,
                                       !.inputAfter = r.inputAfter,
                                       !.log = r.log]
    /\ UNCHANGED <<lifecycleVars, overlay>>

NextResolve == Resolve

SpecResolve == InitResolve /\ [][NextResolve]_vars

(* ---------------------------------------------------------------------- *)
(* Pause and resume events and the timers of the overlay debounce          *)
(* ---------------------------------------------------------------------- *)
\* the event is appended to the run
OverlayEvent(ev) ==
    [overlay EXCEPT !.ops = Append(@, ev),
                    !.helpers = Append(@, overlay.helper)]

\* initialize(): this._overlayHelper = new utils.DebounceHelper(200).  The
\* new helper holds no timer; a timer armed through the helper it replaces
\* is not cleared and stays armed.  Nothing keeps the host from calling
\* initialize() again.
Initialize ==
    /\ overlay.helper < MaxInitializes
    /\ overlay' = [overlay EXCEPT !.helper = @ + 1, !.waitToken = 0]
    /\ UNCHANGED <<lifecycleVars, resolved>>

\* the base adapter reports Debugger.paused.  Before initialize() the call
\* on the undefined helper throws a TypeError: nothing is sent
OnPaused ==
    /\ Len(overlay.ops) < MaxOverlayOps
    /\ overlay' = IF overlay.helper = 0 THEN OverlayEvent("paused")
                  ELSE OverlayOnPaused(OverlayEvent("paused"),
                                       Len(overlay.ops) + 1)
    /\ UNCHANGED <<lifecycleVars, resolved>>

\* the base adapter reports Debugger.resumed.  Before initialize() the call
\* on the undefined helper throws a TypeError: nothing is armed
OnResumed ==
    /\ Len(overlay.ops) < MaxOverlayOps
    /\ overlay' = IF overlay.helper = 0 THEN OverlayEvent("resumed")
                  ELSE OverlayOnResumed(OverlayEvent("resumed"),
                                        Len(overlay.ops) + 1)
    /\ UNCHANGED <<lifecycleVars, resolved>>

\* the delay of an armed timer elapses: its action runs
TimerFire(id) ==
    /\ Len(overlay.ops) < MaxOverlayOps
    /\ id \in overlay.timers
    /\ overlay' =
          RunOverlayAction(
              [OverlayEvent("fire") EXCEPT
                   !.timers = @ \ {id},
                   !.waitToken = IF @ = id THEN 0 ELSE @],
              id)
    /\ UNCHANGED <<lifecycleVars, resolved>>

NextOverlay ==
    \/ Initialize
    \/ OnPaused
    \/ OnResumed
    \/ \E id \in 1 .. MaxOverlayOps : TimerFire(id)

SpecOverlay == Init /\ [][NextOverlay]_vars

(* ---------------------------------------------------------------------- *)
(* Properties                                                              *)
(* ---------------------------------------------------------------------- *)
KillSteps == {"taskkill", "sigint"}

\* the positions of the kill steps in a sequence of effects
KillPositions(effects) == {i \in 1 .. Len(effects) : effects[i] \in KillSteps}

IsPrefix(s, t) == Len(s) <= Len(t) /\ \A i \in 1 .. Len(s) : s[i] = t[i]

LaunchOrder == <<"superLaunch", "build", "spawn", "attach">>

\* the promise chains of the requests
Requests == {launches[i] : i \in 1 .. Len(launches)}

\* the promise chains of the launch() calls
Launches == {l \in Requests : l.kind = "launch"}

InSteps(l, step) == \E i \in 1 .. Len(l.steps) : l.steps[i] = step

\* C1: disconnect() is idempotent: a disconnect() that follows another one,
\* with no launch() call in between, attempts no kill by either mechanism
\* and throws nothing.
C1_DisconnectIdempotent ==
    (lastCall.op = "disconnect" /\ disconnectsSinceLaunch >= 2)
        => /\ lastCall.mech = "none"
           /\ KillPositions(lastCall.effects) = {}
           /\ ~lastCall.threw

\* a second disconnect() after a first one that did kill the process
C1_Witness ==
    /\ lastCall.op = "disconnect"
    /\ disconnectsSinceLaunch = 2
    /\ kills = 1
    /\ \E l \in Launches : l.spawned = 1

\* C2: in every disconnect() that kills the process, the detach (the base
\* disconnect) is issued before the kill.
C2_DetachBeforeKill ==
    (lastCall.op = "disconnect" /\ lastCall.mech # "none")
        => /\ KillPositions(lastCall.effects) # {}
           /\ \E d \in 1 .. Len(lastCall.effects) :
                 /\ lastCall.effects[d] = "detach"
                 /\ \A k \in KillPositions(lastCall.effects) : d < k

\* a disconnect() that killed the tree by pid
C2_Witness ==
    /\ lastCall.op = "disconnect"
    /\ lastCall.mech = "taskkill"
    /\ lastCall.effects = <<"detach", "taskkill", "clear">>

\* C3: a disconnect() entered with the terminated flag set attempts no kill,
\* whether or not a handle or a pid is held, and once the flag is set no
\* later step of the program kills a process.
C3_NoKillOnceTerminated ==
    /\ []((lastCall.op = "disconnect" /\ lastCall.hadTerminated)
            => (lastCall.mech = "none" /\ KillPositions(lastCall.effects) = {}))
    /\ [][_hasTerminated => kills' = kills]_vars

\* a disconnect() on Windows with a handle and a pid, after the session ended
C3_Witness ==
    /\ lastCall.op = "disconnect"
    /\ lastCall.hadTerminated
    /\ lastCall.held
    /\ platform = "Windows"
    /\ TruthyValue(_chromePID)
    /\ disconnectCount = 1

\* C4: after every disconnect() the handle is cleared and nothing was
\* thrown, whatever the outcome of the kill was.
C4_HandleClearedWhateverTheKill ==
    lastCall.op = "disconnect"
        => /\ _chromeProc = NoProc
           /\ ~lastCall.threw
           /\ lastCall.effects[Len(lastCall.effects)] = "clear"

\* a disconnect() whose taskkill failed
C4_Witness ==
    /\ lastCall.op = "disconnect"
    /\ lastCall.mech = "taskkill"
    /\ lastCall.outcome = "failed"

\* C5: every 'error' event of a spawned process, whatever its strategy and
\* whenever it comes, makes the adapter call terminateSession with a reason
\* that carries the error, and leaves the session terminated.
C5_ProcErrorTerminatesSession ==
    lastCall.err # ""
        => /\ _hasTerminated
           /\ lastTerminate = <<"Chrome error: ", lastCall.err>>

\* an 'error' event of a process spawned through the helper
C5_Witness ==
    /\ lastCall.op = "procError"
    /\ lastCall.strategy = "helper"
    /\ lastCall.err = "ENOENT"

\* C6: when the build rejects, launch() rejects with 'Compilation failed.',
\* spawns nothing, attaches to nothing and runs the build once; the handle
\* is not set: when this launch is the only request, no handle is held.
C6_BuildFailureAbortsLaunch ==
    \A l \in Launches :
        l.buildOutcome = "rejected"
            => /\ l.pc = "rejected"
               /\ l.reject = "Compilation failed."
               /\ l.spawned = 0
               /\ l.spawn = NoSpawn
               /\ ~InSteps(l, "spawn") /\ ~InSteps(l, "attach")
               /\ l.attachPort = Undefined
               /\ l.buildCalls = 1
               /\ launchCount = 1 => (_chromeProc = NoProc /\ procs = <<>>)

\* the first launch, rejected by the build
C6_Witness ==
    /\ \E l \in Launches : l.buildOutcome = "rejected"
    /\ launchCount = 1
    /\ procs = <<>>

\* C7: the steps of launch() come in the order build, spawn, attach: no spawn
\* before the build has resolved, no attach before the spawn, and the attach
\* goes to the port of the remote-debugging flag given to the process.
C7_BuildSpawnAttachOrder ==
    \A l \in Launches :
        /\ IsPrefix(l.steps, LaunchOrder)
        /\ (l.spawned > 0 \/ InSteps(l, "spawn"))
              => (l.buildOutcome = "resolved" /\ l.buildCalls = 1)
        /\ InSteps(l, "attach")
              => /\ l.spawned = 1
                 /\ l.vector[2].text = <<"--remote-debugging-port=">>
                 /\ l.attachPort = l.vector[2].num

\* an attach to a port that was drawn at random
C7_Witness ==
    \E l \in Launches :
        /\ l.steps = LaunchOrder
        /\ l.args.port = Undefined
        /\ l.attachPort = RandomPort(1)

\* C8: with noDebug, a launch() that names its executable and whose build
\* has resolved spawns the process, never attaches, and resolves; without
\* noDebug the attach follows every spawn.
C8_NoDebugSkipsAttachOnly ==
    \A l \in Launches :
        /\ (/\ l.args.noDebug
            /\ TruthyStr(l.args.runtimeExecutable)
            /\ l.buildOutcome = "resolved")
              => /\ l.spawned = 1
                 /\ ~InSteps(l, "attach")
                 /\ l.pc = "resolved"
        /\ (~l.args.noDebug /\ l.spawned = 1) => InSteps(l, "attach")

\* C9: once super.doAttach has resolved, doAttach and the request that
\* called it are resolved, whether the user-agent probe is pending,
\* succeeded or failed.
C9_ProbeNeverFailsLaunch ==
    \A l \in Requests :
        l.attachOutcome = "ok"
            => /\ l.pc = "resolved"
               /\ l.reject = ""

\* the probe of the only launch has failed
C9_Witness ==
    /\ \E l \in Launches : l.attachOutcome = "ok" /\ l.probe = "failed"
    /\ launchCount = 1
    /\ lastCall.op = "probeSettle"
    /\ lastCall.outcome = "failed"

\* C10: every spawn goes through the helper exactly when the platform is
\* Windows and no executable path was supplied, and is direct otherwise;
\* with an executable path it is always direct.
C10_StrategyChoice ==
    /\ \A l \in Launches :
          l.spawned = 1
              => /\ l.spawn.strategy \in {"helper", "direct"}
                 /\ (l.spawn.strategy = "helper")
                       <=> (platform = "Windows"
                            /\ l.args.runtimeExecutable \in {UNDEF, ""})
                 /\ l.args.runtimeExecutable = "/opt/electron/electron"
                       => l.spawn.strategy = "direct"
    /\ \A p \in 1 .. Len(procs) : procs[p] = "helper" => platform = "Windows"

\* a spawn through the helper
C10_Witness ==
    /\ \E l \in Launches : l.spawned = 1 /\ l.spawn.strategy = "helper"
    /\ _chromeProc # NoProc

\* C11: a host-initiated disconnect() that holds a handle and was not
\* terminated before makes exactly one kill attempt, never both: taskkill by
\* pid exactly when the platform is Windows and a pid has been recovered,
\* otherwise SIGINT to the held handle
C11_ExactlyOneKillAttempt ==
    (lastCall.op = "disconnect" /\ lastCall.held /\ ~lastCall.hadTerminated)
        => /\ Cardinality(KillPositions(lastCall.effects)) = 1
           /\ \E i \in KillPositions(lastCall.effects) :
                  lastCall.effects[i] = lastCall.mech
           /\ lastCall.mech = "taskkill"
                  <=> (platform = "Windows" /\ TruthyValue(_chromePID))
           /\ lastCall.mech # "taskkill" => lastCall.mech = "sigint"

\* a disconnect on Windows after a PID message that parseInt could not read:
\* no pid recovered, so the one attempt is SIGINT
C11_Witness ==
    /\ lastCall.op = "disconnect" /\ lastCall.held /\ ~lastCall.hadTerminated
    /\ platform = "Windows"
    /\ _chromePID = NaN
    /\ lastCall.mech = "sigint"
    /\ kills = 1

(* ---------------------------------------------------------------------- *)
(* Properties of the port, the launch URL and the argument vector          *)
(* ---------------------------------------------------------------------- *)
\* the launch has run line 104: the build resolved and line 90 did not throw
PortSelected(l) == l.buildOutcome = "resolved" /\ l.port # Undefined

\* the number carried by the remote-debugging flag of an argument vector
FlagPorts(vector) ==
    {vector[i].num : i \in {j \in 1 .. Len(vector) :
                                vector[j].text = <<"--remote-debugging-port=">>}}

\* C12: with an explicit port the remote-debugging flag and the attach use
\* exactly that port; with no explicit port they use an integer p with
\* 10000 <= p < 20000
C12_PortSelection ==
    \A l \in Launches :
        PortSelected(l) =>
            /\ l.args.port # Undefined =>
                  /\ l.port = l.args.port
                  /\ l.vector # <<>> => FlagPorts(l.vector) = {l.args.port}
                  /\ InSteps(l, "attach") => l.attachPort = l.args.port
            /\ l.args.port = Undefined =>
                  /\ l.port >= 10000 /\ l.port < 20000
                  /\ l.vector # <<>> => FlagPorts(l.vector) = {l.port}
                  /\ InSteps(l, "attach") => l.attachPort = l.port

\* the URL arguments of an argument vector, in order
UrlArgs(vector) ==
    SelectSeq(vector,
              LAMBDA a : a.text # <<>>
                         /\ Head(a.text) \in ({"file://", "file:///"} \cup ArgUrls))

\* <workdir>/<file>: for the directory 'app' spelled out, for the other
\* files as the normalised path
ExpectedPath(plat, file) ==
    IF file = FileApp
    THEN (IF plat = "Windows"
          THEN <<"C", ":", "\\", "p", "r", "o", "j", "\\", "a", "p", "p">>
          ELSE <<"/", "p", "r", "o", "j", "/", "a", "p", "p">>)
    ELSE PathResolve(plat, Cwd(plat), file)

\* the file URL of <workdir>/<file>/index.html: for the directory 'app'
\* spelled out, for the other files as the URL of the normalised path
ExpectedFileUrl(plat, file) ==
    IF file = FileApp
    THEN (IF plat = "Windows"
          THEN <<"file:///", "C", ":", "/", "p", "r", "o", "j", "/",
                 "a", "p", "p", "/",
                 "i", "n", "d", "e", "x", ".", "h", "t", "m", "l">>
          ELSE <<"file://", "/", "p", "r", "o", "j", "/",
                 "a", "p", "p", "/",
                 "i", "n", "d", "e", "x", ".", "h", "t", "m", "l">>)
    ELSE PathToFileURL(PathJoin3(plat, Cwd(plat), file, IndexHtml))

\* C13: a launch with a file target has the file URL of
\* <workdir>/<file>/index.html as its launch URL, also when a URL is given
\* as well; a launch with a URL target only has that URL unchanged; a launch
\* with neither appends no URL argument; at most one URL argument is
\* appended.  Stated of a launch that names its executable and whose build
\* has resolved.
C13_LaunchUrl ==
    \A l \in Launches :
        (l.buildOutcome = "resolved" /\ TruthyStr(l.args.runtimeExecutable))
            => LET file == l.args.file
                   url == l.args.url
                   urls == UrlArgs(l.vector)
               IN /\ TruthyFile(file) =>
                        urls = <<Arg(ExpectedFileUrl(platform, file.text),
                                     Undefined)>>
                  /\ (~TruthyFile(file) /\ TruthyStr(url)) =>
                        urls = <<Arg(<<url>>, Undefined)>>
                  /\ (~TruthyFile(file) /\ ~TruthyStr(url)) => urls = <<>>
                  /\ Len(urls) <= 1

\* the arguments of a vector after the fixed '--chromedebug' marker
AfterMarker(vector) ==
    IF vector # <<>> /\ vector[1].text = <<"--chromedebug">> THEN Tail(vector)
    ELSE vector

\* C14: the argument vector handed to the spawn is the remote-debugging flag
\* with the selected port, then the file path resolved against the working
\* directory only if a file target is given, then the launch URL if there is
\* one; without a file target the vector has no file-path argument.  Stated
\* of a launch that names its executable and whose build has resolved, and
\* of the arguments that follow the '--chromedebug' marker.
C14_ArgumentVector ==
    \A l \in Launches :
        (l.buildOutcome = "resolved" /\ TruthyStr(l.args.runtimeExecutable))
            => LET file == l.args.file
                   url == l.args.url
               IN AfterMarker(l.vector) =
                      <<Arg(<<"--remote-debugging-port=">>, l.port)>>
                      \o (IF TruthyFile(file)
                          THEN <<Arg(ExpectedPath(platform, file.text), Undefined),
                                 Arg(ExpectedFileUrl(platform, file.text),
                                     Undefined)>>
                          ELSE IF TruthyStr(url) THEN <<Arg(<<url>>, Undefined)>>
                          ELSE <<>>)

\* C18: after a successful protocol attach the cache-setting request goes
\* out once the user-agent probe has settled, whether the probe succeeded or
\* failed, and it disables the cache exactly when the configuration, the
\* arguments of the latest request, asked for it (absent: not disabled);
\* when the protocol attach fails, neither the probe nor the cache-setting
\* request is issued
C18_CacheSettingAfterProbe ==
    /\ [](/\ lastCall.op = "cacheSend" =>
                /\ lastCall.outcome \in {"ok", "failed"}
                /\ cacheRequest =
                      IF _launchAttachArgs.disableNetworkCache = 1 THEN 1 ELSE 0
          /\ \A l \in Requests :
                /\ l.attachOutcome # "ok" => (l.probe = "" /\ l.cache = Undefined)
                /\ l.cache # Undefined =>
                      /\ l.probe \in {"ok", "failed"}
                      /\ l.cache \in {0, 1}
                      /\ launchCount = 1 =>
                            l.cache = IF l.args.disableNetworkCache = 1 THEN 1 ELSE 0
          /\ (launchCount <= 1 /\ \A l \in Requests : l.cache = Undefined) =>
                cacheRequest = Undefined)
    /\ \A outcome \in {"ok", "failed"} :
          (\E l \in Requests : l.probe = outcome /\ l.cache = Undefined)
              ~> (lastCall.op = "cacheSend" /\ lastCall.outcome = outcome)

\* the probe of an attach() without disableNetworkCache has failed and its
\* continuation has run: the request went out and leaves the cache enabled
C18_Witness ==
    /\ \E l \in Requests :
          /\ l.kind = "attach"
          /\ l.attachOutcome = "ok"
          /\ l.probe = "failed"
          /\ l.args.disableNetworkCache = Undefined
          /\ l.cache = 0
    /\ lastCall.op = "cacheSend"
    /\ lastCall.outcome = "failed"
    /\ cacheRequest = 0

(* ---------------------------------------------------------------------- *)
(* Properties of the recorded pid                                          *)
(* ---------------------------------------------------------------------- *)
\* the kill mechanisms among the steps of a disconnect()
KillsIn(effects) == {effects[i] : i \in KillPositions(effects)}

\* the launch has reached the spawn of line 121 with the helper strategy
\* chosen: its build resolved, lines 90 and 107 did not throw, the platform
\* is Windows and no executable path was given
HelperSpawnReached(l) ==
    /\ l.kind = "launch"
    /\ l.buildOutcome = "resolved"
    /\ l.args.runtimeExecutable # UNDEF
    /\ l.args.file.defined
    /\ SpawnStrategy(platform, TruthyStr(l.args.runtimeExecutable)) = "helper"

\* it to the number it carries, also after disconnect()
C20_DisconnectLeavesPid ==
    [][/\ disconnectCount' # disconnectCount =>
             /\ _chromePID' = _chromePID
             /\ _chromeProc' = NoProc
       /\ (launchCount' # launchCount \/ launches' # launches) =>
             _chromePID' = _chromePID
       /\ reported' # reported \/ lastCall'.op = "pidMessage" =>
             _chromePID' = ParseInt(lastCall'.msg)]_vars

\* the one PID message came from the first helper, disconnect() has run and
\* a second launch is under way: the pid is still recorded
C20_Witness ==
    /\ launchCount = 2
    /\ \E l \in Launches : l.pc = "build"
    /\ disconnectCount >= 1
    /\ _chromeProc = NoProc
    /\ eventCount = 1
    /\ reported = {1}
    /\ _chromePID = Number(FALSE, <<"4", "2">>)

(* ---------------------------------------------------------------------- *)
(* Properties of resolveWebRootPattern                                     *)
(* ---------------------------------------------------------------------- *)
\* the replacement the claim expects for one entry: root in place of a
\* placeholder at index 0 when root is present, the input otherwise
ExpectedReplacement(webRoot, replacePattern) ==
    IF IndexOf(replacePattern, Placeholder) = 0 /\ TruthyRoot(webRoot)
    THEN webRoot.text \o SubSeq(replacePattern, Len(Placeholder) + 1,
                                Len(replacePattern))
    ELSE replacePattern

\* C15: resolveWebRootPattern returns a table with exactly the keys of the
\* input, every replacement having its leading ${webRoot} substituted by the
\* root when the placeholder is at index 0 and the root is present and being
\* the input replacement otherwise; the input table is not modified
C15_ResolveWebRootPattern ==
    resolved.called =>
        /\ Len(resolved.output) = Len(resolved.input)
        /\ \A i \in 1 .. Len(resolved.input) :
              /\ resolved.output[i].key = resolved.input[i].key
              /\ resolved.output[i].value =
                    ExpectedReplacement(resolved.webRoot, resolved.input[i].value)
        /\ resolved.inputAfter = resolved.input
(* ---------------------------------------------------------------------- *)
(* Properties of the overlay debounce                                      *)
(* ---------------------------------------------------------------------- *)
\* the positions at which the action submitted at position id has run
RunsOf(id) == {k \in 1 .. Len(overlay.ran) : overlay.ran[k].id = id}

\* the requests sent at position at
SentAt(at) == {k \in 1 .. Len(overlay.ran) : overlay.ran[k].at = at}

\* the event at position i was handled by a helper
Handled(i) == overlay.helpers[i] >= 1

\* the event at position i scheduled an action and the next event came
\* before its timer expired
Superseded(i, next) ==
    /\ i < Len(overlay.ops)
    /\ Handled(i)
    /\ overlay.ops[i] = "resumed"
    /\ overlay.ops[i + 1] = next

\* the same, the two events being handled by the same helper: initialize()
\* was not called between them
SupersededOnHelper(i, next) ==
    /\ Superseded(i, next)
    /\ overlay.helpers[i + 1] = overlay.helpers[i]

\* the position of the latest pause or resume event of the run, 0 when
\* there is none
LastEventAt ==
    LET evs == {i \in 1 .. Len(overlay.ops) : overlay.ops[i] # "fire"}
    IN IF evs = {} THEN 0 ELSE CHOOSE i \in evs : \A j \in evs : j <= i

\* the latest pause or resume event of the run, "" when there is none
LastEvent == IF LastEventAt = 0 THEN "" ELSE overlay.ops[LastEventAt]

\* the armed timers that were armed through helper h
TimersOf(h) == {t \in overlay.timers : overlay.helpers[t] = h}

\* the requests sent by the actions submitted to helper h, in order
RequestsOf(h) == SelectSeq(overlay.ran, LAMBDA r : overlay.helpers[r.id] = h)


====
